---- MODULE Spec2Model ----
(***************************************************************************)
(* news-automation-bot: the four-task sequential crew of crew.py, its      *)
(* three tools (NewsFetcherTool, SlackBotTool, GoogleSheetsLogger) and the *)
(* entry point run() of main.py.                                           *)
(*                                                                         *)
(* Python values are modelled as follows.  An optional value (the result   *)
(* of os.environ.get or dict.get) is None == <<>> or Some(v) == <<v>>.     *)
(* An f-string is the sequence of its fragments.  A call's outcome is      *)
(* [kind |-> "return", value |-> v] or [kind |-> "raise", exc, arg].       *)
(***************************************************************************)
EXTENDS Integers, Sequences, FiniteSets, TLC

VARIABLES env, feed, pc, idx, started, outputs, runResult, runs, returned,
          last, chat, sheet

vars == <<env, feed, pc, idx, started, outputs, runResult, runs, returned,
          last, chat, sheet>>

\* ------------------------------------------------------------------ bounds
MaxItems == 2
MaxRuns == 2

\* ------------------------------------------------------- Python's values
None == <<>>
Some(v) == <<v>>
Get(d, k) == IF k \in DOMAIN d THEN Some(d[k]) ELSE None

Return(v) == [kind |-> "return", value |-> v]
Raise(e, a) == [kind |-> "raise", exc |-> e, arg |-> a]

\* ------------------------------------------------------------ news items
ItemA == [date |-> "2024-01-01", headline |-> "X", summary |-> "Y", url |-> "http://z"]
ItemB == [date |-> "2024-01-02", headline |-> "P", summary |-> "", url |-> "http://q"]
ItemNoDate == [headline |-> "X", summary |-> "Y", url |-> "http://z"]

NewsItems == {ItemA, ItemB, ItemNoDate}

ItemSeqs == UNION {[1..n -> NewsItems] : n \in 0..MaxItems}

\* ------------------------------------------------- process configuration
WebhookValues == {None, Some(""), Some("https://hooks.slack.example/T0")}
SerperValues == {None, Some("serper-key")}
GcpValues == {None, Some("not-base64-json"), Some("service-account-b64")}
SheetIdValues == {None, Some("sheet-1")}

Environments ==
    [SLACK_WEBHOOK_URL : WebhookValues, SERPER_API_KEY : SerperValues,
     GCP_CREDENTIALS_B64 : GcpValues, SPREADSHEET_ID : SheetIdValues]

\* Python truthiness of an optional string: None and "" are falsy.
Truthy(o) == o # None /\ o[1] # ""

\* ------------------------------------------------ the remote services
Topic == "Artificial Intelligence and Tech"

\* What requests gets back: no response at all (the transport failed), or a
\* final response with a status and a body.
ConnectionFailed == [kind |-> "error"]

SearchResponses(items) ==
    {ConnectionFailed,
     [kind |-> "response", status |-> 200, json |-> Some([organic |-> items])],
     [kind |-> "response", status |-> 403, json |-> Some([message |-> "Unauthorized."])],
     [kind |-> "response", status |-> 500, json |-> None]}

ChatStatuses == {200, 304, 400, 500}

ChatResponses ==
    {ConnectionFailed} \cup {[kind |-> "response", status |-> s] : s \in ChatStatuses}

\* The append response of the spreadsheet service: an error, or a result whose
\* "updates" may be absent and whose "updatedRows" may be absent or any count
\* up to the number of rows sent.
SheetResponses(n) ==
    {ConnectionFailed,
     [kind |-> "response", result |-> [spreadsheetId |-> "sheet-1"]],
     [kind |-> "response", result |-> [updates |-> [updatedRange |-> "Sheet1"]]]}
    \cup {[kind |-> "response", result |-> [updates |-> [updatedRows |-> k]]] : k \in 0..n}

\* A remote service keeps every request it receives: the webhook posts the
\* payload, the spreadsheet appends the rows; neither looks at what it holds.
PostDeduplicated(log, delivered) ==
    IF \E i \in 1..Len(log) : \E j \in 1..Len(delivered) : log[i] = delivered[j]
    THEN log ELSE log \o delivered

Post(log, delivered) == log \o delivered

\* ------------------------------------------------------- NewsFetcherTool
SERPER_URL == "https://google.serper.dev/search"

\* The key is read with os.environ.get and never checked: the request is
\* issued whether or not it is set, and the response's status is not looked
\* at before response.json().
NewsFetcherTool(e, topic, resp) ==
    LET payload == [q |-> topic]
        headers == ("X-API-KEY" :> e.SERPER_API_KEY) @@ ("Content-Type" :> "application/json")
        call == [method |-> "POST", url |-> SERPER_URL, headers |-> headers, json |-> payload]
    IN  [calls |-> <<call>>,
         delivered |-> IF resp.kind = "error" THEN <<>> ELSE <<call>>,
         out |-> IF resp.kind = "error"
                   THEN Raise("ConnectionError", SERPER_URL)
                 ELSE IF resp.json = None
                   THEN Raise("JSONDecodeError", "response.json")
                 ELSE Return(resp.json[1])]

\* ---------------------------------------------------------- SlackBotTool
Divider == [type |-> "divider"]

SectionText(item) == <<"*<", item.url, "|", item.headline, ">*\n", item.summary>>

Section(item) ==
    [type |-> "section", text |-> [type |-> "mrkdwn", text |-> SectionText(item)]]

RECURSIVE BlocksReversed(_)
BlocksReversed(summaries) ==
    IF summaries = <<>> THEN <<>>
    ELSE BlocksReversed(Tail(summaries)) \o <<Section(Head(summaries)), Divider>>

RECURSIVE Blocks(_)
Blocks(summaries) ==
    IF summaries = <<>> THEN <<>>
    ELSE <<Section(Head(summaries)), Divider>> \o Blocks(Tail(summaries))

\* The first key of `keys` (in the order the code reads them) that the first
\* incomplete item lacks: the argument of the KeyError the loop raises.
MissingKey(items, keys) ==
    IF \A i \in 1..Len(items) : \A j \in 1..Len(keys) : keys[j] \in DOMAIN items[i]
    THEN None
    ELSE LET i == CHOOSE i \in 1..Len(items) :
                    /\ \E j \in 1..Len(keys) : keys[j] \notin DOMAIN items[i]
                    /\ \A h \in 1..(i - 1) : \A j \in 1..Len(keys) : keys[j] \in DOMAIN items[h]
             j == CHOOSE j \in 1..Len(keys) :
                    /\ keys[j] \notin DOMAIN items[i]
                    /\ \A h \in 1..(j - 1) : keys[h] \in DOMAIN items[i]
         IN  Some(keys[j])

SlackKeys == <<"url", "headline", "summary">>

\* response.raise_for_status(): HTTPError for a 4xx or 5xx status.
RaiseForStatus(status) == status >= 400 /\ status < 600

SlackBotTool(e, summaries, channel, resp) ==
    LET webhook_url == e.SLACK_WEBHOOK_URL
        missing == MissingKey(summaries, SlackKeys)
    IN  IF ~Truthy(webhook_url)
          THEN [calls |-> <<>>, delivered |-> <<>>,
                out |-> Raise("Exception", "Missing SLACK_WEBHOOK_URL in environment variables")]
        ELSE IF missing # None
          THEN [calls |-> <<>>, delivered |-> <<>>, out |-> Raise("KeyError", missing[1])]
        ELSE LET payload == [channel |-> channel, blocks |-> Blocks(summaries)]
                 call == [method |-> "POST", url |-> webhook_url[1], json |-> payload]
             IN  [calls |-> <<call>>,
                  delivered |-> IF resp.kind = "error" THEN <<>> ELSE <<payload>>,
                  out |-> IF resp.kind = "error"
                            THEN Raise("ConnectionError", webhook_url[1])
                          ELSE IF RaiseForStatus(resp.status)
                            THEN Raise("HTTPError", "status")
                          ELSE Return([status |-> "sent", count |-> Len(summaries)])]

\* ---------------------------------------------------- GoogleSheetsLogger
RANGE == "Sheet1!A:D"

RowUrlFirst(item) == <<item["url"], item["headline"], item["summary"], item["date"]>>

Row(item) == <<item["date"], item["headline"], item["summary"], item["url"]>>

RECURSIVE Rows(_)
Rows(news_items) ==
    IF news_items = <<>> THEN <<>>
    ELSE <<Row(Head(news_items))>> \o Rows(Tail(news_items))

SheetKeys == <<"date", "headline", "summary", "url">>

RowsAddedDefaultZero(result) ==
    LET updates == Get(result, "updates")
    IN  IF updates = None
          THEN Raise("AttributeError", "get")
          ELSE Return([status |-> "logged",
                       rows_added |-> IF "updatedRows" \in DOMAIN updates[1]
                                        THEN Some(updates[1].updatedRows) ELSE Some(0)])

\* result.get("updates").get("updatedRows")
RowsAdded(result) ==
    LET updates == Get(result, "updates")
    IN  IF updates = None
          THEN Raise("AttributeError", "get")
          ELSE Return([status |-> "logged", rows_added |-> Get(updates[1], "updatedRows")])

GoogleSheetsLogger(e, news_items, resp) ==
    LET secret == e.GCP_CREDENTIALS_B64
        SPREADSHEET_ID == e.SPREADSHEET_ID
        missing == MissingKey(news_items, SheetKeys)
        quiet(o) == [calls |-> <<>>, delivered |-> <<>>, out |-> o]
    IN  IF secret = None
          THEN quiet(Raise("KeyError", "GCP_CREDENTIALS_B64"))
        ELSE IF secret # Some("service-account-b64")
          THEN quiet(Raise("ValueError", "GCP_CREDENTIALS_B64"))
        ELSE IF missing # None
          THEN quiet(Raise("KeyError", missing[1]))
        ELSE IF SPREADSHEET_ID = None
          THEN quiet(Raise("TypeError", "Missing required parameter spreadsheetId"))
        ELSE LET rows == Rows(news_items)
                 call == [method |-> "append", spreadsheetId |-> SPREADSHEET_ID[1],
                          range |-> RANGE, valueInputOption |-> "RAW",
                          body |-> [values |-> rows]]
             IN  [calls |-> <<call>>,
                  delivered |-> IF resp.kind = "error" THEN <<>> ELSE <<rows>>,
                  out |-> IF resp.kind = "error"
                            THEN Raise("HttpError", "append")
                            ELSE RowsAdded(resp.result)]

\* ------------------------------------------------------ the crew (crew.py)
\* The tasks in the order the @task methods are declared: the order
\* Process.sequential executes them in.
Tasks == <<"newsfetch_task", "news_summary_task", "slack_task", "google_sheets_task">>

\* The tools each @agent is constructed with.
AgentTools ==
    [news_fetcher |-> {"NewsFetcherTool"}, news_summarizer |-> {},
     slack_bot |-> {"SlackBotTool"}, google_sheets_logger |-> {"GoogleSheetsLogger"}]

\* The agent each task is assigned to (the crew's task configuration).
TaskAgent ==
    [newsfetch_task |-> "news_fetcher", news_summary_task |-> "news_summarizer",
     slack_task |-> "slack_bot", google_sheets_task |-> "google_sheets_logger"]

ToolsOf(task) == AgentTools[TaskAgent[task]]

\* The news items an agent reads out of a search payload.
ItemsOf(payload) == IF "organic" \in DOMAIN payload THEN payload.organic ELSE <<>>

\* The news items the tasks so far hand to the next one.
Context(outs) == IF outs = <<>> THEN <<>> ELSE outs[Len(outs)].items

Swallowed(e) == Return(None)

\* run()'s except clause: the failure wrapped in a new Exception.
Wrapped(e) == Raise("Exception", <<"An error occurred while running the crew: ", e>>)

\* Where the sequential process goes after a task: on to the next task when
\* it produced an output, out of kickoff() with the exception otherwise.
AfterTask(i, out) == IF out.kind = "return" THEN i + 1 ELSE i

PcKeepsRunning(out) == "running"

PcAfterTask(out) == IF out.kind = "return" THEN "running" ELSE "raised"

\* One task of the sequential process: `r` is the outcome of the agent's
\* tool call (or of the agent itself), `items` the news items it hands on.
ExecuteTask(tool, input, resp, r, items) ==
    /\ started' = Append(started, Tasks[idx])
    /\ last' = IF tool = "none" THEN last
               ELSE [tool |-> tool, input |-> input, resp |-> resp,
                     calls |-> r.calls, out |-> r.out]
    /\ idx' = AfterTask(idx, r.out)
    /\ pc' = PcAfterTask(r.out)
    /\ outputs' = IF r.out.kind = "return"
                    THEN Append(outputs, [task |-> Tasks[idx], items |-> items,
                                          result |-> r.out.value])
                    ELSE outputs
    /\ runResult' = IF r.out.kind = "return" THEN runResult ELSE Some(Wrapped(r.out))
    /\ UNCHANGED <<env, feed, runs, returned>>

AgentFailed == [calls |-> <<>>, delivered |-> <<>>, out |-> Raise("LLMError", "agent")]

Current(tools) ==
    /\ pc = "running"
    /\ idx \in 1..Len(Tasks)
    /\ ToolsOf(Tasks[idx]) = tools

\* ------------------------------------------------------------- the state
NoCall == [tool |-> "none", input |-> <<>>, resp |-> ConnectionFailed,
           calls |-> <<>>, out |-> Return(None)]

Init ==
    /\ env \in Environments
    /\ feed \in ItemSeqs
    /\ pc = "idle"
    /\ idx = 1
    /\ started = <<>>
    /\ outputs = <<>>
    /\ runResult = None
    /\ runs = 0
    /\ returned = 0
    /\ last = NoCall
    /\ chat = <<>>
    /\ sheet = <<>>

\* main.run(): a new crew is built and kicked off with the fixed inputs.
Run ==
    /\ pc \in {"idle", "returned", "raised"}
    /\ runs < MaxRuns
    /\ pc' = "running"
    /\ idx' = 1
    /\ started' = <<>>
    /\ outputs' = <<>>
    /\ runResult' = None
    /\ runs' = runs + 1
    /\ UNCHANGED <<env, feed, returned, last, chat, sheet>>

NewsfetchTask ==
    /\ Current({"NewsFetcherTool"})
    /\ \E agentOk \in BOOLEAN : \E resp \in SearchResponses(feed) :
         LET r == IF agentOk THEN NewsFetcherTool(env, Topic, resp) ELSE AgentFailed
         IN  ExecuteTask(IF agentOk THEN "NewsFetcherTool" ELSE "none", Topic, resp, r,
                         IF r.out.kind = "return" THEN ItemsOf(r.out.value) ELSE <<>>)
    /\ UNCHANGED <<chat, sheet>>

NewsSummaryTask ==
    /\ Current({})
    /\ \E agentOk \in BOOLEAN :
         LET r == IF agentOk
                    THEN [calls |-> <<>>, delivered |-> <<>>, out |-> Return(Context(outputs))]
                    ELSE AgentFailed
         IN  ExecuteTask("none", <<>>, ConnectionFailed, r, Context(outputs))
    /\ UNCHANGED <<chat, sheet>>

SlackTask ==
    /\ Current({"SlackBotTool"})
    /\ \E agentOk \in BOOLEAN : \E resp \in ChatResponses :
         LET summaries == Context(outputs)
             r == IF agentOk THEN SlackBotTool(env, summaries, "#general", resp)
                  ELSE AgentFailed
         IN  /\ ExecuteTask(IF agentOk THEN "SlackBotTool" ELSE "none", summaries, resp, r,
                            summaries)
             /\ chat' = Post(chat, r.delivered)
    /\ UNCHANGED sheet

GoogleSheetsTask ==
    /\ Current({"GoogleSheetsLogger"})
    /\ \E agentOk \in BOOLEAN : \E resp \in SheetResponses(Len(Context(outputs))) :
         LET news_items == Context(outputs)
             r == IF agentOk THEN GoogleSheetsLogger(env, news_items, resp)
                  ELSE AgentFailed
         IN  /\ ExecuteTask(IF agentOk THEN "GoogleSheetsLogger" ELSE "none", news_items,
                            resp, r, news_items)
             /\ sheet' = Post(sheet, r.delivered)
    /\ UNCHANGED chat

\* kickoff() returns after the last task and run() returns None.
KickoffDone ==
    /\ pc = "running"
    /\ idx = Len(Tasks) + 1
    /\ pc' = "returned"
    /\ runResult' = Some(Return(None))
    /\ returned' = returned + 1
    /\ UNCHANGED <<env, feed, idx, started, outputs, runs, last, chat, sheet>>

Next ==
    \/ Run
    \/ NewsfetchTask
    \/ NewsSummaryTask
    \/ SlackTask
    \/ GoogleSheetsTask
    \/ KickoffDone

Spec == Init /\ [][Next]_vars

\* ------------------------------------------------------------ the claims
Is2xx(status) == status >= 200 /\ status < 300

WellFormed(items, keys) == MissingKey(items, keys) = None

IsPrefix(s, t) == Len(s) <= Len(t) /\ \A i \in 1..Len(s) : s[i] = t[i]

TaskNames(outs) == [i \in 1..Len(outs) |-> outs[i].task]

\* C1: in one run the tasks start in the declared order, each at most once,
\* a task starts only when every earlier one has produced its output, and
\* kickoff returns only after all four have.
C1_SequentialOrder ==
    /\ IsPrefix(started, Tasks)
    /\ IsPrefix(TaskNames(outputs), started)
    /\ pc = "running" => Len(outputs) = Len(started) /\ idx = Len(started) + 1
    /\ pc = "raised" => Len(outputs) + 1 = Len(started)
    /\ pc = "returned" => TaskNames(outputs) = Tasks /\ started = Tasks

C1_Witness == pc = "returned" /\ started = Tasks /\ Len(outputs) = 4

\* C2: a run whose task failed has stopped at that task (the failed task is
\* the last one started and the earlier ones are the only ones with an
\* output), holds the failure wrapped by run(), and from then on nothing of
\* that run changes: no task runs again and the run never returns.
RunIsOver == UNCHANGED <<started, outputs, runResult, idx, chat, sheet, last, returned>>

NewRun == pc' = "running" /\ runs' = runs + 1 /\ started' = <<>>

C2_AbortOnFailure ==
    /\ [](pc = "raised" =>
            /\ Len(started) = Len(outputs) + 1
            /\ idx = Len(started)
            /\ runResult # None
            /\ runResult[1].kind = "raise"
            /\ runResult[1].exc = "Exception"
            /\ runResult[1].arg[1] = "An error occurred while running the crew: "
            /\ runResult[1].arg[2].kind = "raise")
    /\ [][pc = "raised" => (pc' = "raised" /\ RunIsOver) \/ NewRun]_vars

C2_Witness ==
    /\ pc = "raised"
    /\ Len(outputs) = 2
    /\ runResult[1].arg[2].exc = "HTTPError"
    /\ last.tool = "SlackBotTool"

\* C3 (as stated): a tool invoked without a configuration value it requires
\* raises and makes no network call.
Requires(tool) ==
    CASE tool = "NewsFetcherTool" -> {"SERPER_API_KEY"}
      [] tool = "SlackBotTool" -> {"SLACK_WEBHOOK_URL"}
      [] tool = "GoogleSheetsLogger" -> {"GCP_CREDENTIALS_B64", "SPREADSHEET_ID"}
      [] OTHER -> {}

C3_MissingConfigRaises ==
    (\E k \in Requires(last.tool) : env[k] = None)
        => last.calls = <<>> /\ last.out.kind = "raise"

\* C4 (as stated): a Chat Tool invocation sends at most one request, with the
\* blocks of all items, returns only on a 2xx status and raises on any other.
C4_ChatAllOrNothing ==
    last.tool = "SlackBotTool" =>
        /\ Len(last.calls) <= 1
        /\ \A i \in 1..Len(last.calls) : Len(last.calls[i].json.blocks) = 2 * Len(last.input)
        /\ last.out.kind = "return" =>
               last.resp.kind = "response" /\ Is2xx(last.resp.status)
        /\ (last.calls # <<>> /\ last.resp.kind = "response" /\ ~Is2xx(last.resp.status))
               => last.out.kind = "raise"

\* C5 (as stated): with the remote service answering normally, the Chat Tool
\* and the Spreadsheet Tool invoked with an empty sequence send nothing and
\* report a zero count.
C5_EmptyInputSendsNothing ==
    /\ (/\ last.tool = "SlackBotTool"
        /\ last.input = <<>>
        /\ Truthy(env.SLACK_WEBHOOK_URL)
        /\ last.resp.kind = "response" /\ Is2xx(last.resp.status))
         => last.calls = <<>> /\ last.out = Return([status |-> "sent", count |-> 0])
    /\ (/\ last.tool = "GoogleSheetsLogger"
        /\ last.input = <<>>
        /\ env.GCP_CREDENTIALS_B64 = Some("service-account-b64")
        /\ env.SPREADSHEET_ID # None
        /\ last.resp.kind = "response" /\ "updates" \in DOMAIN last.resp.result)
         => last.calls = <<>>
            /\ last.out = Return([status |-> "logged", rows_added |-> Some(0)])

\* C6 (as stated): the Search Tool raises whenever the transport fails or the
\* search service answers with a non-success status.
C6_SearchFailureRaises ==
    (/\ last.tool = "NewsFetcherTool"
     /\ \/ last.resp.kind = "error"
        \/ ~Is2xx(last.resp.status))
      => last.out.kind = "raise"

\* C7: a Chat Tool invocation on N well-formed items that the webhook answers
\* with 200 returns, and whenever it returns it reports count = N and has
\* sent one payload of 2N blocks: for each item i, in input order, the section
\* linking its url and headline above its summary, then a divider.
C7_ChatBlocks ==
    last.tool = "SlackBotTool" =>
        /\ (/\ WellFormed(last.input, SlackKeys)
            /\ Truthy(env.SLACK_WEBHOOK_URL)
            /\ last.resp.kind = "response" /\ last.resp.status = 200)
             => last.out.kind = "return"
        /\ last.out.kind = "return" =>
             /\ last.out.value = [status |-> "sent", count |-> Len(last.input)]
             /\ Len(last.calls) = 1
             /\ LET blocks == last.calls[1].json.blocks
                IN  /\ Len(blocks) = 2 * Len(last.input)
                    /\ \A i \in 1..Len(last.input) :
                         /\ blocks[2 * i - 1].type = "section"
                         /\ blocks[2 * i - 1].text.type = "mrkdwn"
                         /\ blocks[2 * i - 1].text.text =
                              <<"*<", last.input[i].url, "|", last.input[i].headline,
                                ">*\n", last.input[i].summary>>
                         /\ blocks[2 * i] = [type |-> "divider"]

C7_Witness ==
    /\ last.tool = "SlackBotTool"
    /\ last.out.kind = "return"
    /\ Len(last.input) = 2
    /\ last.input[1] # last.input[2]

\* C8: a Spreadsheet Tool invocation on well-formed items with its
\* configuration present issues exactly one append call, and the rows of an
\* append call are one per item, in input order, each
\* [date, headline, summary, url].
C8_SheetRows ==
    last.tool = "GoogleSheetsLogger" =>
        /\ Len(last.calls) <= 1
        /\ (/\ WellFormed(last.input, SheetKeys)
            /\ env.GCP_CREDENTIALS_B64 = Some("service-account-b64")
            /\ env.SPREADSHEET_ID # None)
             => Len(last.calls) = 1
        /\ \A c \in 1..Len(last.calls) :
             LET rows == last.calls[c].body.values
             IN  /\ last.calls[c].range = "Sheet1!A:D"
                 /\ Len(rows) = Len(last.input)
                 /\ \A i \in 1..Len(rows) :
                      rows[i] = <<last.input[i].date, last.input[i].headline,
                                  last.input[i].summary, last.input[i].url>>

C8_Witness ==
    /\ last.tool = "GoogleSheetsLogger"
    /\ Len(last.calls) = 1
    /\ Len(last.input) = 2
    /\ last.input[1] # last.input[2]

\* C9: whenever the Spreadsheet Tool returns, rows_added is exactly what the
\* append response carries under updates.updatedRows (absent included),
\* whatever the number of input items.
C9_RowsAddedIsRemote ==
    (last.tool = "GoogleSheetsLogger" /\ last.out.kind = "return") =>
        /\ last.resp.kind = "response"
        /\ "updates" \in DOMAIN last.resp.result
        /\ last.out.value.status = "logged"
        /\ last.out.value.rows_added =
             (IF "updatedRows" \in DOMAIN last.resp.result.updates
                THEN <<last.resp.result.updates.updatedRows>> ELSE <<>>)

C9_Witness ==
    /\ last.tool = "GoogleSheetsLogger"
    /\ last.out.kind = "return"
    /\ last.out.value.rows_added # None
    /\ last.out.value.rows_added[1] # Len(last.input)

\* C10: every run that returned has left one message with the webhook and
\* one row set with the spreadsheet, duplicates included: the services hold
\* at least as many of each as runs returned, and exactly as many when every
\* run so far returned.
C10_NotIdempotent ==
    /\ Len(chat) >= returned
    /\ Len(sheet) >= returned
    /\ (pc = "returned" /\ returned = runs) =>
          Len(chat) = runs /\ Len(sheet) = runs

C10_Witness ==
    /\ pc = "returned"
    /\ returned = 2
    /\ Len(chat) = 2 /\ chat[1] = chat[2] /\ chat[1].blocks # <<>>
    /\ Len(sheet) = 2 /\ sheet[1] = sheet[2] /\ sheet[1] # <<>>

====
